---------------------------- MODULE Spec2Model ----------------------------
(***************************************************************************)
(* A model of the repository analysis pipeline of doc_generator:           *)
(* FileUtils (utils.py), CodeAnalyzer and APISpecAnalyzer (analyzers.py)   *)
(* and ServiceDocGenerator._analyze_repository / _prepare_llm_context      *)
(* (generator.py).                                                         *)
(*                                                                         *)
(* Text is modelled character by character: a Python str is a sequence of  *)
(* one-character strings, so that startswith, strip, split, lower, title,  *)
(* substring containment and slicing are computed as Python computes them. *)
(* A text joined with "\n" is kept as the sequence of its lines.           *)
(* Path semantics are those of a POSIX host: names are compared and        *)
(* matched case-sensitively, by code point.                                *)
(* The box-drawing connectors of get_project_structure are written in      *)
(* ASCII: "+-- " for the last-sibling connector, "|-- " for the others,    *)
(* "|   " for the continuation of a non-last ancestor.                     *)
(***************************************************************************)
EXTENDS Integers, Sequences, FiniteSets, TLC

VARIABLES
    fs,        \* the checked-out repository: path -> [kind, content]
    pc,        \* position of the run
    max_depth, \* the max_depth argument of get_project_structure
    ret,       \* what the operation under study returned
    analysis,  \* the analysis dict _analyze_repository builds
    context    \* the parts of the context _prepare_llm_context returns

vars == <<fs, pc, max_depth, ret, analysis, context>>

---------------------------------------------------------------------------
(* Python str operations *)

\* The printable ASCII characters in code-point order, from 32 (space); the
\* backquote (96) is spelled out, no name or text of the model holds it.
Ascii ==
    <<" ","!","\"","#","$","%","&","'","(",")","*","+",",","-",".","/","0","1","2","3","4","5","6","7","8","9",":",";","<","=",">","?","@","A","B","C","D","E","F","G","H","I","J","K","L","M","N","O","P","Q","R","S","T","U","V","W","X","Y","Z","[","\\","]","^","_","BACKQUOTE","a","b","c","d","e","f","g","h","i","j","k","l","m","n","o","p","q","r","s","t","u","v","w","x","y","z","{","|","}","~">>

\* ord(c)
Ord(c) == 31 + (CHOOSE i \in 1..Len(Ascii) : Ascii[i] = c)

\* a < b for str: the first differing character decides, a proper prefix is smaller
StrLess(a, b) ==
    \E i \in 1..Len(b) :
        /\ i <= Len(a) + 1
        /\ SubSeq(a, 1, i - 1) = SubSeq(b, 1, i - 1)
        /\ (i = Len(a) + 1 \/ Ord(a[i]) < Ord(b[i]))

\* s.startswith(p)
StartsWith(s, p) == Len(p) <= Len(s) /\ SubSeq(s, 1, Len(p)) = p

\* p in s
Contains(s, p) ==
    \E i \in 1..(Len(s) - Len(p) + 1) : SubSeq(s, i, i + Len(p) - 1) = p

\* sorted(S) of a set of distinct str
RECURSIVE Sorted(_)
Sorted(S) ==
    IF S = {} THEN <<>>
    ELSE LET m == CHOOSE x \in S : \A y \in S \ {x} : StrLess(x, y)
         IN  <<m>> \o Sorted(S \ {m})

---------------------------------------------------------------------------
(* The repository snapshot *)

Root == <<>>

NoContent == [t |-> "none"]

\* (path / name)
Child(path, name) == Append(path, name)

\* path.name
NameOf(path) == path[Len(path)]

\* path.exists(), path.is_dir(), path.is_file()
Exists(tree, path) == path = Root \/ path \in DOMAIN tree
IsDir(tree, path) == path = Root \/ (path \in DOMAIN tree /\ tree[path].kind = "dir")
IsFile(tree, path) == path \in DOMAIN tree /\ tree[path].kind = "file"

\* path.iterdir(), as the set of the names of the entries
IterDir(tree, path) ==
    {NameOf(p) : p \in {q \in DOMAIN tree :
        Len(q) = Len(path) + 1 /\ SubSeq(q, 1, Len(path)) = path}}

\* the name of the directory the repository is cloned into
RepoName == <<"r","e","p","o">>

---------------------------------------------------------------------------
(* FileUtils.get_project_structure *)

Denylist == {<<"n","o","d","e","_","m","o","d","u","l","e","s">>, <<"_","_","p","y","c","a","c","h","e","_","_">>, <<"v","e","n","v">>, <<"e","n","v">>}

\* the filter of the list comprehension of add_directory
Listed(name) == ~StartsWith(name, <<".">>) /\ name \notin Denylist

\* the walk with the filter of the comprehension left out
ItemsUnfiltered(tree, path) == Sorted(IterDir(tree, path))

\* items = sorted([item for item in path.iterdir() if ...])
Items(tree, path) == Sorted({n \in IterDir(tree, path) : Listed(n)})

\* one appended line: f"{prefix}{current_prefix}{item.name}", the prefix kept
\* as the sequence of its four-character segments
StructureLine(prefix, is_last, name) ==
    [prefix |-> prefix,
     connector |-> IF is_last THEN "+-- " ELSE "|-- ",
     name |-> name]

RECURSIVE add_directory(_, _, _, _, _), add_items(_, _, _, _, _, _, _)
\* the body of add_directory: the depth guard, then the loop over items
add_directory(tree, path, prefix, depth, maxd) ==
    IF depth > maxd THEN <<>>
    ELSE add_items(tree, path, Items(tree, path), 1, prefix, depth, maxd)

\* the iterations i, i+1, ... of the loop
add_items(tree, path, items, i, prefix, depth, maxd) ==
    IF i > Len(items) THEN <<>>
    ELSE LET item == Child(path, items[i])
             is_last == i = Len(items)
             next_prefix == Append(prefix, IF is_last THEN "    " ELSE "|   ")
             below == IF IsDir(tree, item) /\ depth < maxd
                      THEN add_directory(tree, item, next_prefix, depth + 1, maxd)
                      ELSE <<>>
         IN  <<StructureLine(prefix, is_last, items[i])>> \o below
                \o add_items(tree, path, items, i + 1, prefix, depth, maxd)

\* an off-by-one in the depth handed to the walk
get_project_structure_deeper(tree, maxd) ==
    <<RepoName>> \o add_directory(tree, Root, <<>>, 0, maxd + 1)

\* the lines of the returned text: the root's name, then the walk's lines
get_project_structure(tree, maxd) ==
    <<RepoName>> \o add_directory(tree, Root, <<>>, 0, maxd)

---------------------------------------------------------------------------
(* The runs: the clone materialises the repository, then an operation is
   applied to it *)

\* generator.py's call leaves max_depth at its default
DefaultMaxDepth == 3

NoReturn == [op |-> "none"]

\* the analysis before any of its values has been computed
NoAnalysis ==
    [structure |-> <<>>, readme |-> [some |-> FALSE], api_specs |-> <<>>,
     code_analysis |-> <<>>, config_files |-> <<>>]

\* git.Repo.clone_from materialising one more entry of the checkout: a file
\* (with one of the contents given for its name) or a directory (if the name
\* is one of dirs), under the root or under a directory already materialised
CloneEntry(names, dirs, contents, limit) ==
    /\ pc = "clone"
    /\ Cardinality(DOMAIN fs) < limit
    /\ \E parent \in {Root} \cup {p \in DOMAIN fs : fs[p].kind = "dir"} :
       \E name \in names :
          /\ Child(parent, name) \notin DOMAIN fs
          /\ \/ /\ name \in dirs
                /\ fs' = fs @@ (Child(parent, name) :> [kind |-> "dir", content |-> NoContent])
             \/ \E c \in contents[name] :
                  fs' = fs @@ (Child(parent, name) :> [kind |-> "file", content |-> c])
    /\ UNCHANGED <<pc, max_depth, ret, analysis, context>>

\* the state after construction, before the clone has materialised anything
InitEmpty ==
    /\ fs = <<>>
    /\ pc = "clone"
    /\ max_depth = DefaultMaxDepth
    /\ ret = NoReturn
    /\ analysis = NoAnalysis
    /\ context = <<>>

\* read_text of an empty file
EmptyText == [t |-> "text", lines |-> <<<<>>>>]

---------------------------------------------------------------------------
(* The specification of get_project_structure *)

MaxStructEntries == 4
MaxDepthArg == 2

StructNames == {<<".","g","i","t">>, <<"M","a","k","e","f","i","l","e">>, <<"e","n","v">>, <<"l","i","b">>, <<"v","e","n","v">>}

StructContents == [name \in StructNames |-> {EmptyText}]

CloneStructure == CloneEntry(StructNames, StructNames, StructContents, MaxStructEntries)

\* file_utils.get_project_structure(repo_path, max_depth = d)
CallGetProjectStructure ==
    /\ pc = "clone"
    /\ \E d \in 0..MaxDepthArg :
         /\ max_depth' = d
         /\ ret' = [op |-> "get_project_structure",
                    value |-> get_project_structure(fs, d)]
    /\ pc' = "done"
    /\ UNCHANGED <<fs, analysis, context>>

NextStructure == CloneStructure \/ CallGetProjectStructure

SpecStructure == InitEmpty /\ [][NextStructure]_vars

\* the lines the walk appended, after the root's name
WalkLines == Tail(ret.value)

\* the nesting depth a line was appended at: one prefix segment per level
DepthOf(line) == Len(line.prefix)

\* the path of the entry line i stands for, read back from the rendering: its
\* parent is the nearest earlier line one level up
RECURSIVE PathAt(_, _)
PathAt(lines, i) ==
    IF DepthOf(lines[i]) = 0 THEN <<lines[i].name>>
    ELSE LET ups == {j \in 1..(i - 1) : DepthOf(lines[j]) = DepthOf(lines[i]) - 1}
         IN  IF ups = {} THEN <<<<"?">>, lines[i].name>>
             ELSE Append(PathAt(lines, CHOOSE j \in ups : \A k \in ups : k <= j),
                         lines[i].name)

StructureDone == pc = "done" /\ ret.op = "get_project_structure"

\* what the claims call an excluded name
ExcludedName(name) ==
    \/ name[1] = "."
    \/ name \in {<<"n","o","d","e","_","m","o","d","u","l","e","s">>, <<"_","_","p","y","c","a","c","h","e","_","_">>, <<"v","e","n","v">>, <<"e","n","v">>}

\* an entry none of whose path components is excluded
VisiblePath(p) == \A i \in 1..Len(p) : ~ExcludedName(p[i])

\* C8: with max_depth = d the walk lists exactly the (non-excluded) entries of
\* the directories at nesting depth 0..d, each once: no line lies deeper than
\* d, a directory listed at depth d is listed and its children are not, and
\* with d = 0 only the direct children of the root are listed.
C8_DepthBound ==
    StructureDone =>
        LET lines == WalkLines
            expected == {p \in DOMAIN fs : VisiblePath(p) /\ Len(p) <= max_depth + 1}
        IN  /\ \A i \in 1..Len(lines) : DepthOf(lines[i]) <= max_depth
            /\ {PathAt(lines, i) : i \in 1..Len(lines)} = expected
            /\ Len(lines) = Cardinality(expected)
            /\ ret.value[1] = RepoName

\* C8's case: a directory listed at the cutoff depth that has a child the
\* walk must not list
C8_Witness ==
    /\ StructureDone
    /\ max_depth >= 1
    /\ \E p \in DOMAIN fs :
         /\ VisiblePath(p) /\ Len(p) = max_depth + 1 /\ fs[p].kind = "dir"
         /\ \E n \in StructNames : ~ExcludedName(n) /\ Child(p, n) \in DOMAIN fs

\* the lines of the entries directly under the directory at path parent
SiblingLines(lines, parent) ==
    {i \in 1..Len(lines) :
        LET p == PathAt(lines, i) IN SubSeq(p, 1, Len(p) - 1) = parent}

\* C9: hidden and denylisted entries produce no line and are not recursed
\* into; in every listed directory the remaining entries appear in
\* lexicographic order, the final one with the last-sibling connector and
\* every other one with the non-last connector.
C9_ExcludedAndConnectors ==
    StructureDone =>
        LET lines == WalkLines
            parents == {Root} \cup
                {p \in DOMAIN fs : VisiblePath(p) /\ Len(p) <= max_depth /\ fs[p].kind = "dir"}
        IN  /\ \A i \in 1..Len(lines) : VisiblePath(PathAt(lines, i))
            /\ \A parent \in parents :
                 LET sib == SiblingLines(lines, parent)
                 IN  /\ {lines[i].name : i \in sib} =
                            {n \in IterDir(fs, parent) : ~ExcludedName(n)}
                     /\ \A i, j \in sib : i < j => StrLess(lines[i].name, lines[j].name)
                     /\ \A i \in sib :
                          lines[i].connector =
                            IF \A j \in sib : j <= i THEN "+-- " ELSE "|-- "

\* C9's case: a listed directory with two remaining entries and an excluded
\* entry that sorts after the final remaining one
C9_Witness ==
    /\ StructureDone
    /\ \E parent \in {Root} \cup {p \in DOMAIN fs : VisiblePath(p) /\ Len(p) <= max_depth} :
         LET kept == {n \in IterDir(fs, parent) : ~ExcludedName(n)}
         IN  /\ Cardinality(kept) >= 2
             /\ \E x \in IterDir(fs, parent) :
                  ExcludedName(x) /\ \A n \in kept : StrLess(n, x)

---------------------------------------------------------------------------
(* More Python str operations *)

\* the characters str.strip() removes
Whitespace == {" ", "\t", "\r"}

RECURSIVE LStrip(_)
LStrip(s) == IF s # <<>> /\ s[1] \in Whitespace THEN LStrip(Tail(s)) ELSE s

RECURSIVE RStrip(_)
RStrip(s) ==
    IF s # <<>> /\ s[Len(s)] \in Whitespace THEN RStrip(SubSeq(s, 1, Len(s) - 1)) ELSE s

\* s.strip()
Strip(s) == RStrip(LStrip(s))

\* s.split(sep)[0]: what precedes the first occurrence of sep, or all of s
SplitFirst(s, sep) ==
    LET hits == {i \in 1..(Len(s) - Len(sep) + 1) : SubSeq(s, i, i + Len(sep) - 1) = sep}
    IN  IF hits = {} THEN s
        ELSE SubSeq(s, 1, (CHOOSE i \in hits : \A k \in hits : i <= k) - 1)

\* seq[:n]
Take(seq, n) == SubSeq(seq, 1, IF Len(seq) < n THEN Len(seq) ELSE n)

\* the set of the elements of a sequence
Range(seq) == {seq[i] : i \in 1..Len(seq)}

\* a text file's content, as content.split('\n')
Text(lines) == [t |-> "text", lines |-> lines]

---------------------------------------------------------------------------
(* Parsed documents: what json.load and yaml.safe_load return.  A dict keeps
   its keys in insertion order; a parse failure is the value JsonError. *)

JsonError == [j |-> "error"]

\* key in d, d[key] and d.get(key, default) for a dict d
HasKey(d, key) == \E i \in 1..Len(d.keys) : d.keys[i] = key
GetKey(d, key) == d.vals[CHOOSE i \in 1..Len(d.keys) : d.keys[i] = key]
GetOr(d, key, default) == IF HasKey(d, key) THEN GetKey(d, key) ELSE default

\* `key in v` for any parsed value v: "yes", "no", or "raise" (TypeError: the
\* value is not a container)
KeyIn(key, v) ==
    IF v.j = "dict" THEN (IF HasKey(v, key) THEN "yes" ELSE "no")
    ELSE IF v.j = "list"
         THEN (IF \E i \in 1..Len(v.items) : v.items[i] = [j |-> "str", s |-> key]
               THEN "yes" ELSE "no")
    ELSE IF v.j = "str" THEN (IF Contains(v.s, key) THEN "yes" ELSE "no")
    ELSE "raise"

\* the package.json files of the model

Pkg_Truncated ==
    <<<<"{","\"","n","a","m","e","\"",":"," ","\"","s","v","c","\"">>>>

Pkg_List ==
    <<<<"[","]">>>>

Pkg_NameOnly ==
    <<<<"{","\"","n","a","m","e","\"",":","\"","s","v","c","\"","}">>>>

Pkg_Scenario ==
    <<<<"{","\"","d","e","p","e","n","d","e","n","c","i","e","s","\"",":","{","\"","e","x","p","r","e","s","s","\"",":","\"","^","4","\"","}",",","\"","s","c","r","i","p","t","s","\"",":","{","\"","s","t","a","r","t","\"",":","\"","n","o","d","e"," ","i","n","d","e","x",".","j","s","\"","}",",","\"","e","n","g","i","n","e","s","\"",":","{","\"","n","o","d","e","\"",":","\"",">","=","1","8","\"","}","}">>>>

Pkg_Large ==
    <<<<"{","\"","d","e","p","e","n","d","e","n","c","i","e","s","\"",":","{","\"","r","e","a","c","t","\"",":","\"","1","8","\"",",","\"","v","u","e","\"",":","\"","3","\"",",","\"","a","x","i","o","s","\"",":","\"","1","\"",",","\"","l","o","d","a","s","h","\"",":","\"","4","\"",",","\"","r","e","d","u","x","\"",":","\"","5","\"",",","\"","u","u","i","d","\"",":","\"","9","\"","}",",">>, <<"\"","s","c","r","i","p","t","s","\"",":","{","\"","b","u","i","l","d","\"",":","\"","b","\"",",","\"","s","t","a","r","t","\"",":","\"","s","\"",",","\"","t","e","s","t","\"",":","\"","t","\"",",","\"","l","i","n","t","\"",":","\"","l","\"","}",",","\"","e","n","g","i","n","e","s","\"",":","{","\"","n","p","m","\"",":","\"","9","\"","}","}">>>>

Pkg_DepsList ==
    <<<<"{","\"","d","e","p","e","n","d","e","n","c","i","e","s","\"",":","[","\"","e","x","p","r","e","s","s","\"","]",",","\"","s","c","r","i","p","t","s","\"",":","\"","s","t","a","r","t","\"","}">>>>

\* the API specification files of the model

Api_Truncated ==
    <<<<"{","\"","i","n","f","o","\"",":"," ","{","\"","t","i","t","l","e","\"",":"," ","\"","P","e","t","s","\"">>>>

Api_Json ==
    <<<<"{","\"","i","n","f","o","\"",":","{","\"","t","i","t","l","e","\"",":","\"","P","e","t","s","\"","}",",","\"","p","a","t","h","s","\"",":","{","\"","/","a","\"",":","{","}",",","\"","/","b","\"",":","{","}",",","\"","/","c","\"",":","{","}",",","\"","/","d","\"",":","{","}","}","}">>>>

Api_List ==
    <<<<"[","]">>>>

Api_Yaml ==
    <<<<"i","n","f","o",":">>, <<" "," ","t","i","t","l","e",":"," ","O","r","d","e","r","s">>, <<" "," ","v","e","r","s","i","o","n",":"," ","v","2">>>>

\* json.load / json.loads on the texts of the model: every text that is not
\* listed is not JSON

JsonLoad(lines) ==
    CASE lines = Pkg_List ->
           [j |-> "list", items |-> <<>>]
      [] lines = Pkg_NameOnly ->
           [j |-> "dict", keys |-> <<<<"n","a","m","e">>>>, vals |-> <<[j |-> "str", s |-> <<"s","v","c">>]>>]
      [] lines = Pkg_Scenario ->
           [j |-> "dict", keys |-> <<<<"d","e","p","e","n","d","e","n","c","i","e","s">>, <<"s","c","r","i","p","t","s">>, <<"e","n","g","i","n","e","s">>>>, vals |-> <<[j |-> "dict", keys |-> <<<<"e","x","p","r","e","s","s">>>>, vals |-> <<[j |-> "str", s |-> <<"^","4">>]>>], [j |-> "dict", keys |-> <<<<"s","t","a","r","t">>>>, vals |-> <<[j |-> "str", s |-> <<"n","o","d","e"," ","i","n","d","e","x",".","j","s">>]>>], [j |-> "dict", keys |-> <<<<"n","o","d","e">>>>, vals |-> <<[j |-> "str", s |-> <<">","=","1","8">>]>>]>>]
      [] lines = Pkg_Large ->
           [j |-> "dict", keys |-> <<<<"d","e","p","e","n","d","e","n","c","i","e","s">>, <<"s","c","r","i","p","t","s">>, <<"e","n","g","i","n","e","s">>>>, vals |-> <<[j |-> "dict", keys |-> <<<<"r","e","a","c","t">>, <<"v","u","e">>, <<"a","x","i","o","s">>, <<"l","o","d","a","s","h">>, <<"r","e","d","u","x">>, <<"u","u","i","d">>>>, vals |-> <<[j |-> "str", s |-> <<"1","8">>], [j |-> "str", s |-> <<"3">>], [j |-> "str", s |-> <<"1">>], [j |-> "str", s |-> <<"4">>], [j |-> "str", s |-> <<"5">>], [j |-> "str", s |-> <<"9">>]>>], [j |-> "dict", keys |-> <<<<"b","u","i","l","d">>, <<"s","t","a","r","t">>, <<"t","e","s","t">>, <<"l","i","n","t">>>>, vals |-> <<[j |-> "str", s |-> <<"b">>], [j |-> "str", s |-> <<"s">>], [j |-> "str", s |-> <<"t">>], [j |-> "str", s |-> <<"l">>]>>], [j |-> "dict", keys |-> <<<<"n","p","m">>>>, vals |-> <<[j |-> "str", s |-> <<"9">>]>>]>>]
      [] lines = Pkg_DepsList ->
           [j |-> "dict", keys |-> <<<<"d","e","p","e","n","d","e","n","c","i","e","s">>, <<"s","c","r","i","p","t","s">>>>, vals |-> <<[j |-> "list", items |-> <<[j |-> "str", s |-> <<"e","x","p","r","e","s","s">>]>>], [j |-> "str", s |-> <<"s","t","a","r","t">>]>>]
      [] lines = Api_Json ->
           [j |-> "dict", keys |-> <<<<"i","n","f","o">>, <<"p","a","t","h","s">>>>, vals |-> <<[j |-> "dict", keys |-> <<<<"t","i","t","l","e">>>>, vals |-> <<[j |-> "str", s |-> <<"P","e","t","s">>]>>], [j |-> "dict", keys |-> <<<<"/","a">>, <<"/","b">>, <<"/","c">>, <<"/","d">>>>, vals |-> <<[j |-> "dict", keys |-> <<>>, vals |-> <<>>], [j |-> "dict", keys |-> <<>>, vals |-> <<>>], [j |-> "dict", keys |-> <<>>, vals |-> <<>>], [j |-> "dict", keys |-> <<>>, vals |-> <<>>]>>]>>]
      [] lines = Api_List ->
           [j |-> "list", items |-> <<>>]
      [] OTHER -> JsonError

\* yaml.safe_load on the texts of the model: the JSON texts load as the same
\* document, an empty
\* document loads as None, an unterminated flow mapping is an error

YamlLoad(lines) ==
    CASE lines = <<<<>>>> -> [j |-> "null"]
      [] lines = Api_Yaml ->
           [j |-> "dict", keys |-> <<<<"i","n","f","o">>>>, vals |-> <<[j |-> "dict", keys |-> <<<<"t","i","t","l","e">>, <<"v","e","r","s","i","o","n">>>>, vals |-> <<[j |-> "str", s |-> <<"O","r","d","e","r","s">>], [j |-> "str", s |-> <<"v","2">>]>>]>>]
      [] OTHER -> JsonLoad(lines)

---------------------------------------------------------------------------
(* Reading files *)

ReqName == <<"r","e","q","u","i","r","e","m","e","n","t","s",".","t","x","t">>
PkgName == <<"p","a","c","k","a","g","e",".","j","s","o","n">>
SetupName == <<"s","e","t","u","p",".","p","y">>

\* read_text() and open() succeed on a regular file and raise on a directory
Readable(tree, path) == IsFile(tree, path)

\* content.split('\n') of a readable file
LinesOf(tree, path) == tree[path].content.lines

\* the Optional a helper returns: None, or a value
None == [some |-> FALSE]
Some(v) == [some |-> TRUE, value |-> v]

---------------------------------------------------------------------------
(* CodeAnalyzer._analyze_dependencies *)

\* line.split('==')[0].split('>=')[0].split('~=')[0]
PinStripped(line) ==
    SplitFirst(SplitFirst(SplitFirst(line, <<"=","=">>), <<">","=">>), <<"~","=">>)

\* the condition of the comprehension: line.strip() and not line.startswith('#')
IsRequirementLine(line) == Strip(line) # <<>> /\ ~StartsWith(line, <<"#">>)

\* deps = [... for line in content.split('\n') if ...]
RECURSIVE RequirementNames(_)
RequirementNames(lines) ==
    IF lines = <<>> THEN <<>>
    ELSE (IF IsRequirementLine(Head(lines)) THEN <<PinStripped(Head(lines))>> ELSE <<>>)
            \o RequirementNames(Tail(lines))

\* a cap of six instead of five
TopSix(deps) == Take(deps, 6)

\* deps[:5]
Top5(deps) == Take(deps, 5)

\* the requirements.txt block; read_text is not guarded
PythonDeps(tree) ==
    IF ~Exists(tree, <<ReqName>>) THEN [raised |-> FALSE, deps |-> <<>>]
    ELSE IF ~Readable(tree, <<ReqName>>) THEN [raised |-> TRUE, deps |-> <<>>]
    ELSE [raised |-> FALSE, deps |-> Top5(RequirementNames(LinesOf(tree, <<ReqName>>)))]

EmptyDict == [j |-> "dict", keys |-> <<>>, vals |-> <<>>]

\* the package.json block with its try/except left out: a failure propagates
NodeDepsUnguarded(tree) ==
    IF ~Exists(tree, <<PkgName>>) THEN [raised |-> FALSE, deps |-> <<>>]
    ELSE IF ~Readable(tree, <<PkgName>>) THEN [raised |-> TRUE, deps |-> <<>>]
    ELSE LET package_data == JsonLoad(LinesOf(tree, <<PkgName>>))
         IN  IF package_data.j # "dict" THEN [raised |-> TRUE, deps |-> <<>>]
             ELSE LET d == GetOr(package_data, <<"d","e","p","e","n","d","e","n","c","i","e","s">>, EmptyDict)
                  IN  IF d.j # "dict" THEN [raised |-> TRUE, deps |-> <<>>]
                      ELSE [raised |-> FALSE, deps |-> Top5(d.keys)]

\* the package.json block: open, json.load, .get and .keys() run inside
\* try/except: pass, so every failure contributes nothing
NodeDeps(tree) ==
    IF ~Exists(tree, <<PkgName>>) THEN [raised |-> FALSE, deps |-> <<>>]
    ELSE IF ~Readable(tree, <<PkgName>>) THEN [raised |-> FALSE, deps |-> <<>>]
    ELSE LET package_data == JsonLoad(LinesOf(tree, <<PkgName>>))
         IN  IF package_data.j # "dict" THEN [raised |-> FALSE, deps |-> <<>>]
             ELSE LET d == GetOr(package_data, <<"d","e","p","e","n","d","e","n","c","i","e","s">>, EmptyDict)
                  IN  IF d.j # "dict" THEN [raised |-> FALSE, deps |-> <<>>]
                      ELSE [raised |-> FALSE, deps |-> Top5(d.keys)]

\* the returned text is ', '.join of the value (the empty text for no name)
analyze_dependencies(tree) ==
    LET py == PythonDeps(tree)
        node == NodeDeps(tree)
    IN  IF py.raised \/ node.raised THEN [raised |-> TRUE, value |-> <<>>]
        ELSE [raised |-> FALSE, value |-> Take(py.deps \o node.deps, 10)]

---------------------------------------------------------------------------
(* FileUtils._extract_package_json_info *)

\* the `if 'scripts' in data` block: the part appended, or a raise
ScriptsPart(data) ==
    LET has == KeyIn(<<"s","c","r","i","p","t","s">>, data)
    IN  IF has = "raise" THEN [raised |-> TRUE, parts |-> <<>>]
        ELSE IF has = "no" THEN [raised |-> FALSE, parts |-> <<>>]
        ELSE IF data.j = "dict" /\ GetKey(data, <<"s","c","r","i","p","t","s">>).j = "dict"
        THEN [raised |-> FALSE,
              parts |-> <<[label |-> "Scripts: ",
                           items |-> Take(GetKey(data, <<"s","c","r","i","p","t","s">>).keys, 3)]>>]
        ELSE [raised |-> TRUE, parts |-> <<>>]

\* the `if 'node' in engines` block
NodePart(engines) ==
    LET has == KeyIn(<<"n","o","d","e">>, engines)
    IN  IF has = "raise" THEN [raised |-> TRUE, parts |-> <<>>]
        ELSE IF has = "no" THEN [raised |-> FALSE, parts |-> <<>>]
        ELSE IF engines.j = "dict"
        THEN [raised |-> FALSE,
              parts |-> <<[label |-> "Node: ", value |-> GetKey(engines, <<"n","o","d","e">>)]>>]
        ELSE [raised |-> TRUE, parts |-> <<>>]

\* the `if 'engines' in data` block
EnginesPart(data) ==
    LET has == KeyIn(<<"e","n","g","i","n","e","s">>, data)
    IN  IF has = "raise" THEN [raised |-> TRUE, parts |-> <<>>]
        ELSE IF has = "no" THEN [raised |-> FALSE, parts |-> <<>>]
        ELSE IF data.j = "dict" THEN NodePart(GetKey(data, <<"e","n","g","i","n","e","s">>))
        ELSE [raised |-> TRUE, parts |-> <<>>]

\* the parts joined with ' | ', or None: for no part and for any exception
extract_package_json_info(tree, path) ==
    IF ~Readable(tree, path) THEN None
    ELSE LET data == JsonLoad(LinesOf(tree, path))
         IN  IF data.j = "error" THEN None
             ELSE LET scripts == ScriptsPart(data)
                      engines == EnginesPart(data)
                  IN  IF scripts.raised \/ engines.raised THEN None
                      ELSE IF scripts.parts \o engines.parts = <<>> THEN None
                      ELSE Some(scripts.parts \o engines.parts)

---------------------------------------------------------------------------
(* FileUtils._extract_python_info *)

\* the condition of the comprehension: line.strip() and not line.startswith('#')
IsCountedLine(line) == Strip(line) # <<>> /\ ~StartsWith(line, <<"#">>)

\* len(lines) of the comprehension
RECURSIVE CountedLines(_)
CountedLines(lines) ==
    IF lines = <<>> THEN 0
    ELSE (IF IsCountedLine(Head(lines)) THEN 1 ELSE 0) + CountedLines(Tail(lines))

\* f"Dependencies: {len(lines)} packages" for requirements.txt, the literal
\* note for a setup.py that mentions python_requires, else None
extract_python_info(tree, path) ==
    IF ~Readable(tree, path) THEN None
    ELSE IF NameOf(path) = ReqName
         THEN Some([label |-> "Dependencies: ",
                    count |-> CountedLines(LinesOf(tree, path)),
                    unit |-> " packages"])
    ELSE IF NameOf(path) = SetupName
              /\ \E i \in 1..Len(LinesOf(tree, path)) :
                    Contains(LinesOf(tree, path)[i], <<"p","y","t","h","o","n","_","r","e","q","u","i","r","e","s">>)
         THEN Some([label |-> "Python package with setup.py"])
    ELSE None

---------------------------------------------------------------------------
(* FileUtils.find_config_files *)

config_patterns ==
    << <<"c","o","n","f","i","g",".","j","s","o","n">>, <<"c","o","n","f","i","g",".","y","a","m","l">>, <<"c","o","n","f","i","g",".","y","m","l">>,
       <<".","e","n","v",".","e","x","a","m","p","l","e">>, <<".","e","n","v",".","t","e","m","p","l","a","t","e">>,
       <<"d","o","c","k","e","r","-","c","o","m","p","o","s","e",".","y","m","l">>, <<"d","o","c","k","e","r","-","c","o","m","p","o","s","e",".","y","a","m","l">>,
       <<"D","o","c","k","e","r","f","i","l","e">>, <<"M","a","k","e","f","i","l","e">>,
       <<"p","a","c","k","a","g","e",".","j","s","o","n">>, <<"r","e","q","u","i","r","e","m","e","n","t","s",".","t","x","t">>, <<"s","e","t","u","p",".","p","y">>,
       <<"p","o","m",".","x","m","l">>, <<"b","u","i","l","d",".","g","r","a","d","l","e">>, <<"g","o",".","m","o","d">>, <<"C","a","r","g","o",".","t","o","m","l">> >>

\* the info the loop body extracts for one existing file
ConfigInfo(tree, pattern) ==
    IF pattern = PkgName THEN extract_package_json_info(tree, <<pattern>>)
    ELSE IF pattern \in {ReqName, SetupName} THEN extract_python_info(tree, <<pattern>>)
    ELSE None

\* the loop with the two appends of an iteration in the opposite order
RECURSIVE ConfigLinesInfoFirst(_, _)
ConfigLinesInfoFirst(tree, i) ==
    IF i > Len(config_patterns) THEN <<>>
    ELSE LET pattern == config_patterns[i]
             info == ConfigInfo(tree, pattern)
         IN  (IF Exists(tree, <<pattern>>)
              THEN (IF info.some THEN <<[kind |-> "info", info |-> info.value]>>
                    ELSE <<>>)
                      \o <<[kind |-> "bullet", name |-> pattern]>>
              ELSE <<>>)
             \o ConfigLinesInfoFirst(tree, i + 1)

\* the lines the iterations i, i+1, ... of the loop append
RECURSIVE ConfigLines(_, _)
ConfigLines(tree, i) ==
    IF i > Len(config_patterns) THEN <<>>
    ELSE LET pattern == config_patterns[i]
             info == ConfigInfo(tree, pattern)
         IN  (IF Exists(tree, <<pattern>>)
              THEN <<[kind |-> "bullet", name |-> pattern]>>
                      \o (IF info.some THEN <<[kind |-> "info", info |-> info.value]>>
                          ELSE <<>>)
              ELSE <<>>)
             \o ConfigLines(tree, i + 1)

NoConfigFiles == [kind |-> "placeholder", text |-> "No configuration files found"]

\* '\n'.join(config_files) without the fallback
find_config_files_joined(tree) == ConfigLines(tree, 1)

\* '\n'.join(config_files) if config_files else the placeholder
find_config_files(tree) ==
    IF ConfigLines(tree, 1) = <<>> THEN <<NoConfigFiles>> ELSE ConfigLines(tree, 1)

---------------------------------------------------------------------------
(* Path.suffix and Path.rglob *)

\* path.suffix: from the last dot of the name, unless the dot is the name's
\* first or last character
Suffix(name) ==
    LET dots == {i \in 1..Len(name) : name[i] = "."}
        last == CHOOSE i \in dots : \A k \in dots : k <= i
    IN  IF dots = {} THEN <<>>
        ELSE IF last > 1 /\ last < Len(name) THEN SubSeq(name, last, Len(name))
        ELSE <<>>

\* s.endswith(p)
EndsWith(s, p) == Len(p) <= Len(s) /\ SubSeq(s, Len(s) - Len(p) + 1, Len(s)) = p

\* the entries strictly below a directory
Below(tree, dir) ==
    {p \in DOMAIN tree : Len(p) > Len(dir) /\ SubSeq(p, 1, Len(dir)) = dir}

\* the orders a walk of the tree can meet its entries in: directory listing
\* order is the host's business, so every order is allowed
WalkOrders(tree) ==
    {o \in [1..Cardinality(DOMAIN tree) -> DOMAIN tree] :
        \A i, k \in DOMAIN o : i # k => o[i] # o[k]}

\* list(dir.rglob('*word*')): the entries below dir whose name holds the word,
\* matched case-sensitively, in the walk's order
RGlobContaining(tree, order, dir, word) ==
    SelectSeq(order, LAMBDA p : p \in Below(tree, dir) /\ Contains(NameOf(p), word))

\* list(dir.rglob('*ext')): the entries below dir whose name ends with ext
RGlobEnding(tree, order, dir, ext) ==
    SelectSeq(order, LAMBDA p : p \in Below(tree, dir) /\ EndsWith(NameOf(p), ext))

---------------------------------------------------------------------------
(* APISpecAnalyzer._extract_api_info *)

Unknown == [j |-> "str", s |-> <<"U","n","k","n","o","w","n">>]

\* the `if 'info' in spec_data` block: the line appended, or a raise
InfoLines(spec_data) ==
    LET has == KeyIn(<<"i","n","f","o">>, spec_data)
    IN  IF has = "raise" THEN [raised |-> TRUE, lines |-> <<>>]
        ELSE IF has = "no" THEN [raised |-> FALSE, lines |-> <<>>]
        ELSE IF spec_data.j = "dict" /\ GetKey(spec_data, <<"i","n","f","o">>).j = "dict"
        THEN [raised |-> FALSE,
              lines |-> <<[kind |-> "field", label |-> "  Title: ",
                           title |-> GetOr(GetKey(spec_data, <<"i","n","f","o">>), <<"t","i","t","l","e">>, Unknown),
                           version |-> GetOr(GetKey(spec_data, <<"i","n","f","o">>), <<"v","e","r","s","i","o","n">>, Unknown)]>>]
        ELSE [raised |-> TRUE, lines |-> <<>>]

\* the `if 'paths' in spec_data` block: len() and .keys() need a dict
PathsLines(spec_data) ==
    LET has == KeyIn(<<"p","a","t","h","s">>, spec_data)
    IN  IF has = "raise" THEN [raised |-> TRUE, lines |-> <<>>]
        ELSE IF has = "no" THEN [raised |-> FALSE, lines |-> <<>>]
        ELSE IF spec_data.j = "dict" /\ GetKey(spec_data, <<"p","a","t","h","s">>).j = "dict"
        THEN LET paths == GetKey(spec_data, <<"p","a","t","h","s">>)
             IN  [raised |-> FALSE,
                  lines |-> <<[kind |-> "field", label |-> "  Endpoints: ",
                               count |-> Len(paths.keys)]>>
                            \o (IF paths.keys # <<>>
                                THEN <<[kind |-> "field", label |-> "  Sample endpoints: ",
                                        endpoints |-> Take(paths.keys, 3)]>>
                                ELSE <<>>)]
        ELSE [raised |-> TRUE, lines |-> <<>>]

\* the extracted lines ('\n'.join(info)), or None for any exception
extract_api_info(tree, spec_file) ==
    IF ~Readable(tree, spec_file) THEN None
    ELSE LET spec_data == IF Suffix(NameOf(spec_file)) = <<".","j","s","o","n">>
                          THEN JsonLoad(LinesOf(tree, spec_file))
                          ELSE YamlLoad(LinesOf(tree, spec_file))
         IN  IF spec_data.j = "error" THEN None
             ELSE IF InfoLines(spec_data).raised \/ PathsLines(spec_data).raised THEN None
             ELSE Some(InfoLines(spec_data).lines \o PathsLines(spec_data).lines)

---------------------------------------------------------------------------
(* APISpecAnalyzer.find_api_specs *)

\* the first loop over the files i, i+1, ... of openapi_files
RECURSIVE OpenApiLines(_, _, _)
OpenApiLines(tree, openapi_files, i) ==
    IF i > Len(openapi_files) THEN <<>>
    ELSE LET spec_file == openapi_files[i]
             content == extract_api_info(tree, spec_file)
         IN  (IF Suffix(NameOf(spec_file)) \in {<<".","y","a","m","l">>, <<".","y","m","l">>, <<".","j","s","o","n">>}
              THEN <<[kind |-> "header", label |-> "OpenAPI Spec: ",
                      name |-> NameOf(spec_file)]>>
                      \o (IF content.some /\ content.value # <<>>
                          THEN content.value ELSE <<>>)
              ELSE <<>>)
             \o OpenApiLines(tree, openapi_files, i + 1)

\* the second loop
RECURSIVE GraphqlLines(_, _)
GraphqlLines(graphql_files, i) ==
    IF i > Len(graphql_files) THEN <<>>
    ELSE (IF Suffix(NameOf(graphql_files[i])) \in {<<".","g","r","a","p","h","q","l">>, <<".","g","q","l">>}
          THEN <<[kind |-> "header", label |-> "GraphQL Schema: ",
                  name |-> NameOf(graphql_files[i])]>>
          ELSE <<>>)
         \o GraphqlLines(graphql_files, i + 1)

\* the third loop
RECURSIVE ApiDocLines(_, _, _, _)
ApiDocLines(tree, order, api_docs, i) ==
    IF i > Len(api_docs) THEN <<>>
    ELSE (IF IsDir(tree, api_docs[i])
              /\ RGlobEnding(tree, order, api_docs[i], <<".","m","d">>) # <<>>
          THEN <<[kind |-> "header", label |-> "API Documentation: ",
                  name |-> NameOf(api_docs[i]) \o <<"/">>]>>
          ELSE <<>>)
         \o ApiDocLines(tree, order, api_docs, i + 1)

NoApiSpecs == [kind |-> "placeholder", text |-> "No API specifications found"]

\* the three passes, each over the concatenation of two rglob results
ApiSpecLines(tree, order) ==
    OpenApiLines(tree,
                 RGlobContaining(tree, order, Root, <<"o","p","e","n","a","p","i">>)
                    \o RGlobContaining(tree, order, Root, <<"s","w","a","g","g","e","r">>), 1)
    \o GraphqlLines(RGlobEnding(tree, order, Root, <<".","g","r","a","p","h","q","l">>)
                    \o RGlobContaining(tree, order, Root, <<"s","c","h","e","m","a">>), 1)
    \o ApiDocLines(tree, order,
                   RGlobContaining(tree, order, Root, <<"a","p","i">>)
                    \o RGlobContaining(tree, order, Root, <<"d","o","c","s">>), 1)

\* '\n'.join(specs) if specs else the placeholder
find_api_specs(tree, order) ==
    IF ApiSpecLines(tree, order) = <<>> THEN <<NoApiSpecs>> ELSE ApiSpecLines(tree, order)

---------------------------------------------------------------------------
(* str.lower and str.title *)

IsUpper(c) == c \in {Ascii[i] : i \in 34..59}
IsLower(c) == c \in {Ascii[i] : i \in 66..91}

\* the position of a character in Ascii
AsciiIndex(c) == CHOOSE i \in 1..Len(Ascii) : Ascii[i] = c

LowerChar(c) == IF IsUpper(c) THEN Ascii[AsciiIndex(c) + 32] ELSE c
UpperChar(c) == IF IsLower(c) THEN Ascii[AsciiIndex(c) - 32] ELSE c

\* s.lower()
Lower(s) == [i \in 1..Len(s) |-> LowerChar(s[i])]

\* s.title(): a letter that follows a non-letter is upper-cased, every other
\* letter is lower-cased
Title(s) ==
    [i \in 1..Len(s) |->
        IF i = 1 \/ ~(IsUpper(s[i - 1]) \/ IsLower(s[i - 1]))
        THEN UpperChar(s[i]) ELSE LowerChar(s[i])]

---------------------------------------------------------------------------
(* CodeAnalyzer._detect_languages *)

language_extensions ==
    << <<<<".","p","y">>, "Python">>, <<<<".","j","s">>, "JavaScript">>, <<<<".","t","s">>, "TypeScript">>,
       <<<<".","j","a","v","a">>, "Java">>, <<<<".","g","o">>, "Go">>, <<<<".","r","s">>, "Rust">>,
       <<<<".","c","p","p">>, "C++">>, <<<<".","c">>, "C">>, <<<<".","c","s">>, "C#">>,
       <<<<".","p","h","p">>, "PHP">>, <<<<".","r","b">>, "Ruby">> >>

\* found_languages: the languages of the suffixes of the files of the tree
detect_languages(tree) ==
    {language_extensions[i][2] : i \in
        {k \in 1..Len(language_extensions) :
            \E p \in DOMAIN tree :
                IsFile(tree, p) /\ Suffix(NameOf(p)) = language_extensions[k][1]}}

\* list(found_languages): a set is listed in no particular order
LanguageLists(tree) ==
    {l \in [1..Cardinality(detect_languages(tree)) -> detect_languages(tree)] :
        \A i, k \in DOMAIN l : i # k => l[i] # l[k]}

---------------------------------------------------------------------------
(* CodeAnalyzer._detect_frameworks *)

framework_indicators ==
    << <<<<"p","a","c","k","a","g","e",".","j","s","o","n">>, << <<"r","e","a","c","t">>, <<"v","u","e">>, <<"a","n","g","u","l","a","r">>, <<"e","x","p","r","e","s","s">>, <<"f","a","s","t","i","f","y">>, <<"n","e","x","t">> >> >>,
       <<<<"r","e","q","u","i","r","e","m","e","n","t","s",".","t","x","t">>, << <<"d","j","a","n","g","o">>, <<"f","l","a","s","k">>, <<"f","a","s","t","a","p","i">>, <<"t","o","r","n","a","d","o">> >> >>,
       <<<<"p","o","m",".","x","m","l">>, << <<"s","p","r","i","n","g">>, <<"h","i","b","e","r","n","a","t","e">> >> >>,
       <<<<"g","o",".","m","o","d">>, << <<"g","i","n">>, <<"e","c","h","o">>, <<"f","i","b","e","r">> >> >>,
       <<<<"C","a","r","g","o",".","t","o","m","l">>, << <<"a","c","t","i","x">>, <<"r","o","c","k","e","t">>, <<"w","a","r","p">> >> >> >>

\* framework in content: the test without lower()
MentionedInCased(lines, framework) ==
    \E i \in 1..Len(lines) : Contains(lines[i], framework)

\* framework in content.lower(): no token holds a newline, so a match lies
\* within one line
MentionedIn(lines, framework) ==
    \E i \in 1..Len(lines) : Contains(Lower(lines[i]), framework)

\* the inner loop over the tokens k, k+1, ... of one manifest
RECURSIVE FrameworksOf(_, _, _)
FrameworksOf(lines, framework_list, k) ==
    IF k > Len(framework_list) THEN <<>>
    ELSE (IF MentionedIn(lines, framework_list[k])
          THEN <<Title(framework_list[k])>> ELSE <<>>)
         \o FrameworksOf(lines, framework_list, k + 1)

\* the outer loop over the manifests i, i+1, ...; read_text is not guarded
RECURSIVE DetectFrom(_, _)
DetectFrom(tree, i) ==
    IF i > Len(framework_indicators) THEN [raised |-> FALSE, value |-> <<>>]
    ELSE LET file_path == <<framework_indicators[i][1]>>
             rest == DetectFrom(tree, i + 1)
         IN  IF ~Exists(tree, file_path) THEN rest
             ELSE IF ~Readable(tree, file_path) THEN [raised |-> TRUE, value |-> <<>>]
             ELSE IF rest.raised THEN rest
             ELSE [raised |-> FALSE,
                   value |-> FrameworksOf(LinesOf(tree, file_path),
                                          framework_indicators[i][2], 1) \o rest.value]

detect_frameworks(tree) == DetectFrom(tree, 1)

---------------------------------------------------------------------------
(* CodeAnalyzer._find_entry_points *)

common_entry_files ==
    << <<"m","a","i","n",".","p","y">>, <<"a","p","p",".","p","y">>, <<"s","e","r","v","e","r",".","p","y">>, <<"i","n","d","e","x",".","j","s">>, <<"m","a","i","n",".","j","s">>,
       <<"a","p","p",".","j","s">>, <<"s","e","r","v","e","r",".","j","s">>, <<"m","a","i","n",".","g","o">>, <<"m","a","i","n",".","j","a","v","a">>, <<"P","r","o","g","r","a","m",".","c","s">> >>

\* a search of the whole tree instead of the root
find_entry_points_anywhere(tree) ==
    SelectSeq(common_entry_files,
              LAMBDA entry_file : \E p \in DOMAIN tree : NameOf(p) = entry_file)

\* the entries of the list that exist at the root, in the list's order
find_entry_points(tree) ==
    SelectSeq(common_entry_files, LAMBDA entry_file : Exists(tree, <<entry_file>>))

---------------------------------------------------------------------------
(* CodeAnalyzer.analyze_codebase *)

\* whether ', '.join(names) is a non-empty text
JoinedNonEmpty(names) == Len(names) > 1 \/ (Len(names) = 1 /\ names[1] # <<>>)

\* the insights, for the order `languages` the set of languages is listed in;
\* '\n'.join(insights) is kept as its lines
analyze_codebase(tree, languages) ==
    LET frameworks == detect_frameworks(tree)
        entry_points == find_entry_points(tree)
        dependencies == analyze_dependencies(tree)
    IN  IF frameworks.raised \/ dependencies.raised
        THEN [raised |-> TRUE, value |-> <<>>]
        ELSE [raised |-> FALSE,
              value |->
                (IF languages # <<>>
                 THEN <<[kind |-> "insight", label |-> "Programming Languages: ",
                         items |-> languages]>> ELSE <<>>)
                \o (IF frameworks.value # <<>>
                    THEN <<[kind |-> "insight", label |-> "Frameworks: ",
                            items |-> frameworks.value]>> ELSE <<>>)
                \o (IF entry_points # <<>>
                    THEN <<[kind |-> "insight", label |-> "Entry Points: ",
                            items |-> entry_points]>> ELSE <<>>)
                \o (IF JoinedNonEmpty(dependencies.value)
                    THEN <<[kind |-> "insight", label |-> "Key Dependencies: ",
                            items |-> dependencies.value]>> ELSE <<>>)]

---------------------------------------------------------------------------
(* FileUtils.find_readme *)

readme_patterns == << <<"R","E","A","D","M","E",".","m","d">>, <<"R","E","A","D","M","E",".","r","s","t">>, <<"R","E","A","D","M","E",".","t","x","t">>, <<"R","E","A","D","M","E">> >>

\* '\n'.join(lines): the text the lines were split from
RECURSIVE JoinLines(_)
JoinLines(lines) ==
    IF Len(lines) = 1 THEN lines[1]
    ELSE lines[1] \o <<"\n">> \o JoinLines(Tail(lines))

\* the loop from pattern i on: the content of the first pattern that exists
\* and can be read (a failing read moves on to the next pattern), else None
RECURSIVE ReadmeFrom(_, _)
ReadmeFrom(tree, i) ==
    IF i > Len(readme_patterns) THEN None
    ELSE IF Exists(tree, <<readme_patterns[i]>>) /\ Readable(tree, <<readme_patterns[i]>>)
         THEN Some(JoinLines(LinesOf(tree, <<readme_patterns[i]>>)))
    ELSE ReadmeFrom(tree, i + 1)

find_readme(tree) == ReadmeFrom(tree, 1)

---------------------------------------------------------------------------
(* ServiceDocGenerator._prepare_llm_context *)

ReadmeCap == 2000

\* the excerpt without the ellipsis
ReadmeExcerptBare(readme) == Take(readme, ReadmeCap)

\* f"{analysis['readme'][:2000]}..."
ReadmeExcerpt(readme) == Take(readme, ReadmeCap) \o <<".",".",".">>

\* the context parts, in order; the context is '\n\n'.join of them, each part
\* being its label, a newline and its body
prepare_llm_context(a) ==
    (IF a.structure # <<>>
     THEN <<[label |-> "**Project Structure:**", body |-> a.structure]>> ELSE <<>>)
    \o (IF a.readme.some /\ a.readme.value # <<>>
        THEN <<[label |-> "**Existing README:**", body |-> ReadmeExcerpt(a.readme.value)]>>
        ELSE <<>>)
    \o (IF a.api_specs # <<>>
        THEN <<[label |-> "**API Specifications:**", body |-> a.api_specs]>> ELSE <<>>)
    \o (IF a.code_analysis # <<>>
        THEN <<[label |-> "**Code Analysis:**", body |-> a.code_analysis]>> ELSE <<>>)
    \o (IF a.config_files # <<>>
        THEN <<[label |-> "**Configuration:**", body |-> a.config_files]>> ELSE <<>>)

---------------------------------------------------------------------------
(* The specification of find_api_specs *)

MaxApiEntries == 3

ApiNames ==
    {<<"o","p","e","n","a","p","i",".","j","s","o","n">>, <<"O","p","e","n","A","P","I",".","y","a","m","l">>, <<"s","w","a","g","g","e","r","-","o","p","e","n","a","p","i",".","y","m","l">>,
     <<"s","c","h","e","m","a",".","g","r","a","p","h","q","l">>, <<"a","p","i","-","d","o","c","s">>, <<"g","u","i","d","e",".","m","d">>}

ApiContents ==
    [name \in ApiNames |->
        IF name = <<"o","p","e","n","a","p","i",".","j","s","o","n">>
        THEN {Text(Api_Truncated), Text(Api_Json), Text(Api_List)}
        ELSE IF name \in {<<"O","p","e","n","A","P","I",".","y","a","m","l">>, <<"s","w","a","g","g","e","r","-","o","p","e","n","a","p","i",".","y","m","l">>}
        THEN {Text(Api_Yaml)}
        ELSE {EmptyText}]

CloneApi == CloneEntry(ApiNames, ApiNames, ApiContents, MaxApiEntries)

\* api_analyzer.find_api_specs(repo_path), for any order of the walk
CallFindApiSpecs ==
    /\ pc = "clone"
    /\ \E order \in WalkOrders(fs) :
         ret' = [op |-> "find_api_specs", raised |-> FALSE,
                 value |-> find_api_specs(fs, order)]
    /\ pc' = "done"
    /\ UNCHANGED <<fs, max_depth, analysis, context>>

NextApi == CloneApi \/ CallFindApiSpecs

SpecApi == InitEmpty /\ [][NextApi]_vars

ApiDone == pc = "done" /\ ret.op = "find_api_specs"

\* the header lines of a report that carry the given name
HeadersFor(lines, name) ==
    {i \in 1..Len(lines) : lines[i].kind = "header" /\ lines[i].name = name}

\* C2: find_api_specs emits at most one header line per discovered artifact:
\* the headers that name an entry (a directory's header names it with a
\* trailing slash) are no more than the entries of the tree with that name,
\* also for a name that matches two search patterns.
C2_OneHeaderPerArtifact ==
    ApiDone =>
        \A name \in ApiNames :
            Cardinality(HeadersFor(ret.value, name) \cup HeadersFor(ret.value, name \o <<"/">>))
                <= Cardinality({p \in DOMAIN fs : NameOf(p) = name})

\* what C6 calls an OpenAPI/Swagger name: the keyword in any letter case, and
\* one of the three extensions
IsOpenApiName(name) ==
    /\ Contains(Lower(name), <<"o","p","e","n","a","p","i">>) \/ Contains(Lower(name), <<"s","w","a","g","g","e","r">>)
    /\ Suffix(name) \in {<<".","y","a","m","l">>, <<".","y","m","l">>, <<".","j","s","o","n">>}

\* C6: every entry whose name holds 'openapi' or 'swagger' in any letter case
\* and whose extension is .yaml, .yml or .json gets an 'OpenAPI Spec: <name>'
\* header line.
C6_CaseInsensitiveKeyword ==
    ApiDone =>
        \A p \in DOMAIN fs :
            IsOpenApiName(NameOf(p)) =>
                \E i \in HeadersFor(ret.value, NameOf(p)) :
                    ret.value[i].label = "OpenAPI Spec: "

---------------------------------------------------------------------------
(* The specification of the manifest readers *)

MaxManifestEntries == 2
MaxDepLines == 6
MaxLines == 2

\* the requirement lines of the long files, and those of the short ones
DepLines == {<<"f","l","a","s","k","=","=","2",".","0">>, <<"#"," ","p","i","n","n","e","d">>}
MixedLines ==
    {<<>>, <<" "," ">>, <<"#"," ","c">>, <<" "," ","#"," ","c">>, <<"f","l","a","s","k","=","=","2",".","0">>, <<"d","j","a","n","g","o",">","=","4">>,
     <<"u","v","i","c","o","r","n","~","=","0",".","2">>, <<"r","e","q","u","e","s","t","s">>}

\* the texts of 1..n lines drawn from a set of lines
TextsOf(lines, n) == UNION {{Text(l) : l \in [1..k -> lines]} : k \in 1..n}

ManifestNames == {ReqName, PkgName, SetupName}

ManifestContents ==
    [name \in ManifestNames |->
        IF name = ReqName
        THEN TextsOf(DepLines, MaxDepLines) \cup TextsOf(MixedLines, MaxLines)
        ELSE IF name = PkgName
        THEN {Text(Pkg_Truncated), Text(Pkg_List), Text(Pkg_NameOnly),
              Text(Pkg_Scenario), Text(Pkg_Large), Text(Pkg_DepsList)}
        ELSE {EmptyText, Text(<<<<"p","y","t","h","o","n","_","r","e","q","u","i","r","e","s","=","'",">","=","3",".","8","'">>>>)}]

CloneManifest == CloneEntry(ManifestNames, {ReqName}, ManifestContents, MaxManifestEntries)

\* code_analyzer._analyze_dependencies(repo_path)
CallAnalyzeDependencies ==
    /\ pc = "clone"
    /\ ret' = [op |-> "analyze_dependencies",
               raised |-> analyze_dependencies(fs).raised,
               value |-> analyze_dependencies(fs).value]
    /\ pc' = "done"
    /\ UNCHANGED <<fs, max_depth, analysis, context>>

\* self._extract_python_info(config_path), as find_config_files calls it for
\* an existing requirements.txt or setup.py of the root
CallExtractPythonInfo ==
    /\ pc = "clone"
    /\ \E pattern \in {ReqName, SetupName} :
         /\ Exists(fs, <<pattern>>)
         /\ ret' = [op |-> "extract_python_info", raised |-> FALSE,
                    path |-> <<pattern>>,
                    value |-> extract_python_info(fs, <<pattern>>)]
    /\ pc' = "done"
    /\ UNCHANGED <<fs, max_depth, analysis, context>>

\* file_utils.find_config_files(repo_path)
CallFindConfigFiles ==
    /\ pc = "clone"
    /\ ret' = [op |-> "find_config_files", raised |-> FALSE,
               value |-> find_config_files(fs)]
    /\ pc' = "done"
    /\ UNCHANGED <<fs, max_depth, analysis, context>>

NextManifest ==
    \/ CloneManifest
    \/ CallAnalyzeDependencies
    \/ CallExtractPythonInfo
    \/ CallFindConfigFiles

SpecManifest == InitEmpty /\ [][NextManifest]_vars

DepsDone == pc = "done" /\ ret.op = "analyze_dependencies" /\ ~ret.raised

\* the lines of the root's requirements.txt, if it is a file
RootRequirementLines ==
    IF IsFile(fs, <<ReqName>>) THEN Range(fs[<<ReqName>>].content.lines) ELSE {}

\* the keys of the dependencies of the root's package.json, if it has them
RootNodeKeys ==
    IF IsFile(fs, <<PkgName>>)
          /\ JsonLoad(fs[<<PkgName>>].content.lines).j = "dict"
          /\ GetOr(JsonLoad(fs[<<PkgName>>].content.lines), <<"d","e","p","e","n","d","e","n","c","i","e","s">>, EmptyDict).j = "dict"
    THEN Range(GetOr(JsonLoad(fs[<<PkgName>>].content.lines), <<"d","e","p","e","n","d","e","n","c","i","e","s">>, EmptyDict).keys)
    ELSE {}

\* C3: _analyze_dependencies returns at most 10 names: at most 5 taken from
\* requirements.txt, then at most 5 keys of package.json's dependencies, every
\* Python-sourced name before every Node-sourced one.
C3_DependencyCaps ==
    DepsDone =>
        /\ Len(ret.value) <= 10
        /\ \E k \in 0..Len(ret.value) :
             /\ k <= 5
             /\ Len(ret.value) - k <= 5
             /\ \A i \in 1..k :
                  \E line \in RootRequirementLines : StartsWith(line, ret.value[i])
             /\ \A i \in (k + 1)..Len(ret.value) : ret.value[i] \in RootNodeKeys

\* C3's case: both manifests hold more than five names, and ten are returned
C3_Witness ==
    /\ DepsDone
    /\ IsFile(fs, <<ReqName>>) /\ Len(RequirementNames(fs[<<ReqName>>].content.lines)) > 5
    /\ Cardinality(RootNodeKeys) > 5
    /\ Len(ret.value) = 10
    /\ ret.value[5] = <<"f","l","a","s","k">> /\ ret.value[6] = <<"r","e","a","c","t">>

\* what C4 calls a counted line: neither blank nor, leading whitespace
\* aside, a comment
IsPackageLine(line) == Strip(line) # <<>> /\ Strip(line)[1] # "#"

\* C4: for requirements.txt _extract_python_info reports the number of lines
\* that are neither blank nor comment lines, a comment line preceded by
\* whitespace not being counted.
C4_CountsPackageLines ==
    (pc = "done" /\ ret.op = "extract_python_info" /\ ret.path = <<ReqName>>
        /\ IsFile(fs, <<ReqName>>))
    => /\ ret.value.some
       /\ ret.value.value.count =
            Cardinality({i \in 1..Len(fs[<<ReqName>>].content.lines) :
                            IsPackageLine(fs[<<ReqName>>].content.lines[i])})

---------------------------------------------------------------------------
(* The specification of _find_entry_points *)

MaxEntryEntries == 3

EntryNames == {<<"m","a","i","n",".","p","y">>, <<"a","p","p",".","p","y">>, <<"i","n","d","e","x",".","j","s">>, <<"P","r","o","g","r","a","m",".","c","s">>, <<"s","r","c">>}

EntryContents == [name \in EntryNames |-> {EmptyText}]

CloneEntryPoints == CloneEntry(EntryNames, EntryNames, EntryContents, MaxEntryEntries)

\* code_analyzer._find_entry_points(repo_path)
CallFindEntryPoints ==
    /\ pc = "clone"
    /\ ret' = [op |-> "find_entry_points", raised |-> FALSE,
               value |-> find_entry_points(fs)]
    /\ pc' = "done"
    /\ UNCHANGED <<fs, max_depth, analysis, context>>

NextEntryPoints == CloneEntryPoints \/ CallFindEntryPoints

SpecEntryPoints == InitEmpty /\ [][NextEntryPoints]_vars

\* the canonical order C10 states
CanonicalEntryOrder ==
    << <<"m","a","i","n",".","p","y">>, <<"a","p","p",".","p","y">>, <<"s","e","r","v","e","r",".","p","y">>, <<"i","n","d","e","x",".","j","s">>, <<"m","a","i","n",".","j","s">>,
       <<"a","p","p",".","j","s">>, <<"s","e","r","v","e","r",".","j","s">>, <<"m","a","i","n",".","g","o">>, <<"m","a","i","n",".","j","a","v","a">>, <<"P","r","o","g","r","a","m",".","c","s">> >>

EntryPointsDone == pc = "done" /\ ret.op = "find_entry_points"

\* C10: _find_entry_points returns exactly the canonical names that exist
\* directly at the root, in the canonical order and without duplicates; a
\* name that exists only in a subdirectory is not returned.
C10_RootEntryPoints ==
    EntryPointsDone =>
        /\ Range(ret.value) =
              {n \in Range(CanonicalEntryOrder) : <<n>> \in DOMAIN fs}
        /\ \A i, k \in 1..Len(ret.value) :
              i < k =>
                \E a, b \in 1..Len(CanonicalEntryOrder) :
                    /\ a < b
                    /\ CanonicalEntryOrder[a] = ret.value[i]
                    /\ CanonicalEntryOrder[b] = ret.value[k]

\* C10's case: two entry points at the root, listed out of their canonical
\* order by name, and another one that exists only in a subdirectory
C10_Witness ==
    /\ EntryPointsDone
    /\ Len(ret.value) >= 2
    /\ \E p \in DOMAIN fs :
         /\ Len(p) > 1
         /\ NameOf(p) \in Range(CanonicalEntryOrder)
         /\ <<NameOf(p)>> \notin DOMAIN fs

---------------------------------------------------------------------------
(* The specification of the pipeline: _analyze_repository, then
   _prepare_llm_context *)

MaxPipelineEntries == 3
ReadmeSlack == 1
ReadmeLong == 5000

\* a README line of n characters, no two of seven consecutive ones alike
ReadmeOfLength(n) == [i \in 1..n |-> Ascii[66 + (i % 7)]]

ReadmeLengths ==
    {0} \cup ((ReadmeCap - ReadmeSlack)..(ReadmeCap + ReadmeSlack)) \cup {ReadmeLong}

PipelineNames ==
    {<<"R","E","A","D","M","E",".","m","d">>, <<"o","p","e","n","a","p","i",".","j","s","o","n">>, <<"s","w","a","g","g","e","r",".","y","a","m","l">>, PkgName, ReqName, <<"s","r","c">>}

\* the names of the pipeline's trees that may be directories
PipelineDirs == {<<"s","r","c">>, ReqName}

PipelineContents ==
    [name \in PipelineNames |->
        IF name = <<"R","E","A","D","M","E",".","m","d">>
        THEN {Text(<<ReadmeOfLength(n)>>) : n \in ReadmeLengths}
                \cup {Text(<<<<"S","e","r","v","i","c","e">>, <<"=","=","=","=","=","=","=">>>>)}
        ELSE IF name = <<"o","p","e","n","a","p","i",".","j","s","o","n">> THEN {Text(Api_Truncated), Text(Api_Json)}
        ELSE IF name = <<"s","w","a","g","g","e","r",".","y","a","m","l">> THEN {Text(Api_Truncated), Text(Api_Yaml)}
        ELSE IF name = PkgName THEN {Text(Pkg_Truncated), Text(Pkg_Scenario)}
        ELSE IF name = ReqName THEN {Text(<<<<"f","l","a","s","k","=","=","2",".","0">>, <<"#"," ","c">>, <<"d","j","a","n","g","o",">","=","4">>>>)}
        ELSE {EmptyText}]

ClonePipeline == CloneEntry(PipelineNames, PipelineDirs, PipelineContents, MaxPipelineEntries)

\* 'structure': self.file_utils.get_project_structure(repo_path)
AnalyzeStructure ==
    /\ pc = "clone"
    /\ analysis' = [analysis EXCEPT !.structure = get_project_structure(fs, max_depth)]
    /\ pc' = "readme"
    /\ UNCHANGED <<fs, max_depth, ret, context>>

\* 'readme': self.file_utils.find_readme(repo_path)
AnalyzeReadme ==
    /\ pc = "readme"
    /\ analysis' = [analysis EXCEPT !.readme = find_readme(fs)]
    /\ pc' = "api"
    /\ UNCHANGED <<fs, max_depth, ret, context>>

\* 'api_specs': self.api_analyzer.find_api_specs(repo_path)
AnalyzeApiSpecs ==
    /\ pc = "api"
    /\ \E order \in WalkOrders(fs) :
         analysis' = [analysis EXCEPT !.api_specs = find_api_specs(fs, order)]
    /\ pc' = "code"
    /\ UNCHANGED <<fs, max_depth, ret, context>>

\* 'code_analysis': self.code_analyzer.analyze_codebase(repo_path); an
\* exception of an unguarded read ends the run
AnalyzeCode ==
    /\ pc = "code"
    /\ \E languages \in LanguageLists(fs) :
         IF analyze_codebase(fs, languages).raised
         THEN pc' = "failed" /\ UNCHANGED analysis
         ELSE /\ analysis' = [analysis EXCEPT
                                !.code_analysis = analyze_codebase(fs, languages).value]
              /\ pc' = "config"
    /\ UNCHANGED <<fs, max_depth, ret, context>>

\* 'config_files': self.file_utils.find_config_files(repo_path)
AnalyzeConfig ==
    /\ pc = "config"
    /\ analysis' = [analysis EXCEPT !.config_files = find_config_files(fs)]
    /\ pc' = "context"
    /\ UNCHANGED <<fs, max_depth, ret, context>>

\* context = self._prepare_llm_context(analysis)
PrepareContext ==
    /\ pc = "context"
    /\ context' = prepare_llm_context(analysis)
    /\ pc' = "done"
    /\ UNCHANGED <<fs, max_depth, ret, analysis>>

NextPipeline ==
    \/ ClonePipeline
    \/ AnalyzeStructure
    \/ AnalyzeReadme
    \/ AnalyzeApiSpecs
    \/ AnalyzeCode
    \/ AnalyzeConfig
    \/ PrepareContext

SpecPipeline == InitEmpty /\ [][NextPipeline]_vars

\* the parts of the context that carry the given label
PartsLabelled(label) == {i \in 1..Len(context) : context[i].label = label}

\* C1: the context holds a section only if its data is non-empty and not a
\* placeholder: no API Specifications block when find_api_specs found
\* nothing, no Configuration block when find_config_files found none of the
\* known files.
C1_NoPlaceholderSections ==
    pc = "done" =>
        /\ analysis.api_specs = <<NoApiSpecs>> => PartsLabelled("**API Specifications:**") = {}
        /\ analysis.config_files = <<NoConfigFiles>> => PartsLabelled("**Configuration:**") = {}
        /\ analysis.code_analysis = <<>> => PartsLabelled("**Code Analysis:**") = {}
        /\ ~analysis.readme.some => PartsLabelled("**Existing README:**") = {}

\* the README section C5 states: the first 2000 characters, then '...'
ReadmeSectionOf(readme) ==
    SubSeq(readme, 1, IF Len(readme) < 2000 THEN Len(readme) ELSE 2000) \o <<".", ".", ".">>

\* C5 as stated: whenever a README is found, the context has the README
\* section, whose body is the first 2000 characters and the '...' suffix.
C5_Original ==
    (pc = "done" /\ analysis.readme.some) =>
        \E i \in PartsLabelled("**Existing README:**") :
            context[i].body = ReadmeSectionOf(analysis.readme.value)

\* C5, amended: whenever a README with non-empty content is found, the
\* context has exactly one README section, whose body is the first 2000
\* characters of the content and the '...' suffix, also for a content shorter
\* than 2000 characters; a README of 5000 characters gives a body of 2003.
C5_ReadmeExcerpt ==
    (pc = "done" /\ analysis.readme.some /\ analysis.readme.value # <<>>) =>
        /\ Cardinality(PartsLabelled("**Existing README:**")) = 1
        /\ \A i \in PartsLabelled("**Existing README:**") :
             /\ context[i].body = ReadmeSectionOf(analysis.readme.value)
             /\ Len(analysis.readme.value) = 5000 => Len(context[i].body) = 2003

\* C5's case: a README of 5000 characters went through the assembler
C5_Witness ==
    /\ pc = "done"
    /\ analysis.readme.some
    /\ Len(analysis.readme.value) = 5000
    /\ \E i \in PartsLabelled("**Existing README:**") : Len(context[i].body) = 2003

\* a discovered OpenAPI/Swagger file whose content fails to parse
MalformedSpecFile(p) ==
    /\ IsFile(fs, p)
    /\ Contains(NameOf(p), <<"o","p","e","n","a","p","i">>) \/ Contains(NameOf(p), <<"s","w","a","g","g","e","r">>)
    /\ Suffix(NameOf(p)) \in {<<".","y","a","m","l">>, <<".","y","m","l">>, <<".","j","s","o","n">>}
    /\ (IF Suffix(NameOf(p)) = <<".","j","s","o","n">>
        THEN JsonLoad(fs[p].content.lines)
        ELSE YamlLoad(fs[p].content.lines)).j = "error"

\* the root's package.json is a file that is not JSON
MalformedPackageJson ==
    IsFile(fs, <<PkgName>>) /\ JsonLoad(fs[<<PkgName>>].content.lines).j = "error"

\* the tree without one of its files
Without(tree, path) == [p \in DOMAIN tree \ {path} |-> tree[p]]

\* the Key Dependencies line of a code analysis
DependencyInsights(lines) ==
    {i \in 1..Len(lines) : lines[i].label = "Key Dependencies: "}

\* C7: a parse failure is recovered where it happens.  A malformed
\* OpenAPI/Swagger file gets its header line and no extracted-field line; a
\* malformed package.json adds no name to the dependencies, which are those
\* of requirements.txt alone, and gets its bullet and no info line; and the
\* run does not fail for it.
C7_ParseFailuresRecovered ==
    /\ (pc = "failed" /\ MalformedPackageJson) => IsDir(fs, <<ReqName>>)
    /\ pc = "done" =>
        /\ \A p \in DOMAIN fs :
             (MalformedSpecFile(p)
                /\ \A q \in DOMAIN fs : NameOf(q) = NameOf(p) => MalformedSpecFile(q))
             => /\ HeadersFor(analysis.api_specs, NameOf(p)) # {}
                /\ \A i \in HeadersFor(analysis.api_specs, NameOf(p)) :
                     /\ analysis.api_specs[i].label = "OpenAPI Spec: "
                     /\ i < Len(analysis.api_specs)
                          => analysis.api_specs[i + 1].kind # "field"
        /\ MalformedPackageJson =>
             /\ \A i \in DependencyInsights(analysis.code_analysis) :
                  analysis.code_analysis[i].items =
                     analyze_dependencies(Without(fs, <<PkgName>>)).value
             /\ (DependencyInsights(analysis.code_analysis) # {})
                  = IsFile(fs, <<ReqName>>)
             /\ \E i \in 1..Len(analysis.config_files) :
                  /\ analysis.config_files[i] = [kind |-> "bullet", name |-> PkgName]
                  /\ i < Len(analysis.config_files)
                       => analysis.config_files[i + 1].kind = "bullet"

\* C7's case: a run over a malformed OpenAPI file, a malformed package.json
\* and a requirements.txt has completed, with the dependencies of
\* requirements.txt reported
C7_Witness ==
    /\ pc = "done"
    /\ MalformedPackageJson
    /\ MalformedSpecFile(<<<<"o","p","e","n","a","p","i",".","j","s","o","n">>>>)
    /\ IsFile(fs, <<ReqName>>)
    /\ \E i \in DependencyInsights(analysis.code_analysis) :
         analysis.code_analysis[i].items = <<<<"f","l","a","s","k">>, <<"d","j","a","n","g","o">>>>
    /\ PartsLabelled("**Code Analysis:**") # {}


----------------------------------------------------------------------------
(* The specification of _detect_frameworks: a checkout of up to
   MaxFrameworkEntries entries among the five manifests and a directory,
   then one call.  A manifest may also be checked out below a directory, and
   go.mod may be a directory. *)

MaxFrameworkEntries == 3

FrameworkNames ==
    {PkgName, ReqName, <<"p","o","m",".","x","m","l">>, <<"g","o",".","m","o","d">>, <<"C","a","r","g","o",".","t","o","m","l">>, <<"d","o","c","s">>}

FrameworkDirs == {<<"d","o","c","s">>, <<"g","o",".","m","o","d">>}

FrameworkContents ==
    [name \in FrameworkNames |->
        IF name = PkgName
        THEN {Text(<<<<"{","\"","d","e","p","e","n","d","e","n","c","i","e","s","\"",":","{","\"","N","e","x","t","\"",":","\"","1","4","\"",",","\"","r","e","a","c","t","\"",":","\"","1","8","\"",",","\"","r","e","a","c","t","-","d","o","m","\"",":","\"","1","8","\"","}","}">>>>),
              Text(<<<<"{","\"","n","a","m","e","\"",":","\"","f","l","a","s","k","-","u","i","\"",",">>, <<"\"","d","e","p","e","n","d","e","n","c","i","e","s","\"",":","{","\"","e","x","p","r","e","s","s","\"",":","\"","4","\"","}","}">>>>),
              EmptyText}
        ELSE IF name = ReqName
        THEN {Text(<<<<"F","l","a","s","k","=","=","2",".","0">>, <<"D","j","a","n","g","o",">","=","4">>>>), Text(<<<<"f","a","s","t","a","p","i">>>>),
              Text(<<<<"r","e","a","c","t">>>>)}
        ELSE IF name = <<"p","o","m",".","x","m","l">>
        THEN {Text(<<<<"<","a","r","t","i","f","a","c","t","I","d",">","s","p","r","i","n","g","-","b","o","o","t","<","/","a","r","t","i","f","a","c","t","I","d",">">>>>),
              Text(<<<<"<","n","a","m","e",">","H","i","b","e","r","n","a","t","e","<","/","n","a","m","e",">">>, <<"<","n","a","m","e",">","d","j","a","n","g","o","<","/","n","a","m","e",">">>>>)}
        ELSE IF name = <<"g","o",".","m","o","d">>
        THEN {Text(<<<<"r","e","q","u","i","r","e"," ","g","i","t","h","u","b",".","c","o","m","/","g","i","n","-","g","o","n","i","c","/","g","i","n"," ","v","1">>>>), Text(<<<<"m","o","d","u","l","e"," ","e","c","h","o">>>>)}
        ELSE IF name = <<"C","a","r","g","o",".","t","o","m","l">>
        THEN {Text(<<<<"a","c","t","i","x","-","w","e","b"," ","="," ","\"","4","\"">>, <<"w","a","r","p"," ","="," ","\"","0",".","3","\"">>>>), Text(<<<<"R","o","c","k","e","t">>>>)}
        ELSE {EmptyText}]

CloneFrameworks ==
    CloneEntry(FrameworkNames, FrameworkDirs, FrameworkContents, MaxFrameworkEntries)

\* self._detect_frameworks(repo_path)
CallDetectFrameworks ==
    /\ pc = "clone"
    /\ ret' = [op |-> "detect_frameworks",
               raised |-> detect_frameworks(fs).raised,
               value |-> detect_frameworks(fs).value]
    /\ pc' = "done"
    /\ UNCHANGED <<fs, max_depth, analysis, context>>

NextFrameworks == CloneFrameworks \/ CallDetectFrameworks

SpecFrameworks == InitEmpty /\ [][NextFrameworks]_vars

FrameworksDone == pc = "done" /\ ret.op = "detect_frameworks" /\ ~ret.raised

\* the (manifest, token) pairs in scan order: manifest by manifest, and in
\* the order of its candidate list within a manifest
RECURSIVE CandidatesFrom(_)
CandidatesFrom(i) ==
    IF i > Len(framework_indicators) THEN <<>>
    ELSE [k \in 1..Len(framework_indicators[i][2]) |->
             <<framework_indicators[i][1], framework_indicators[i][2][k]>>]
         \o CandidatesFrom(i + 1)

\* C11: a call of _detect_frameworks that returns, returns the title-cased
\* tokens of the (manifest, token) pairs, taken in scan order (package.json,
\* requirements.txt, pom.xml, go.mod, Cargo.toml, and the candidate list's
\* order within a manifest), whose manifest exists at the root and whose token
\* is a substring of the manifest's whole lower-cased text; nothing is removed
\* from and nothing else is added to that list, so a token of a manifest that
\* does not exist at the root (also one mentioned in another manifest, or in a
\* manifest below a directory) never appears.
C11_FrameworksInScanOrder ==
    FrameworksDone =>
        LET Hit(pair) ==
                /\ Exists(fs, <<pair[1]>>)
                /\ Contains(Lower(JoinLines(fs[<<pair[1]>>].content.lines)), pair[2])
            hits == SelectSeq(CandidatesFrom(1), Hit)
        IN  ret.value = [i \in 1..Len(hits) |-> Title(hits[i][2])]

\* C11's case: a call has returned over a root holding package.json (with
\* react in two places and Next capitalised) and requirements.txt (with Flask
\* and Django capitalised and in the opposite order of the candidate list)
C11_Witness ==
    /\ FrameworksDone
    /\ IsFile(fs, <<PkgName>>) /\ IsFile(fs, <<ReqName>>)
    /\ ~Exists(fs, <<<<"p","o","m",".","x","m","l">>>>)
    /\ ret.value = <<<<"R","e","a","c","t">>, <<"N","e","x","t">>, <<"D","j","a","n","g","o">>, <<"F","l","a","s","k">>>>

----------------------------------------------------------------------------
(* The specification of find_config_files: a checkout of up to
   MaxConfigEntries entries among some of the 16 probed names, a name that is
   not probed and a directory, then one call.  A probed name may also be
   checked out below the directory, and requirements.txt may be a directory. *)

MaxConfigEntries == 3

ConfigNames ==
    {<<"c","o","n","f","i","g",".","j","s","o","n">>, <<"D","o","c","k","e","r","f","i","l","e">>, PkgName, ReqName, SetupName, <<"C","a","r","g","o",".","t","o","m","l">>,
     <<"n","o","t","e","s",".","t","x","t">>, <<"c","o","n","f">>}

ConfigDirs == {<<"c","o","n","f">>, ReqName}

ConfigContents ==
    [name \in ConfigNames |->
        IF name = PkgName
        THEN {Text(Pkg_Scenario), Text(Pkg_Truncated), Text(Pkg_NameOnly), Text(Pkg_DepsList)}
        ELSE IF name = ReqName
        THEN {Text(<<<<"f","l","a","s","k","=","=","2",".","0">>, <<"d","j","a","n","g","o",">","=","4">>>>), EmptyText}
        ELSE IF name = SetupName
        THEN {EmptyText, Text(<<<<"p","y","t","h","o","n","_","r","e","q","u","i","r","e","s","=","'",">","=","3",".","8","'">>>>)}
        ELSE {EmptyText}]

CloneConfig == CloneEntry(ConfigNames, ConfigDirs, ConfigContents, MaxConfigEntries)

NextConfig == CloneConfig \/ CallFindConfigFiles

SpecConfig == InitEmpty /\ [][NextConfig]_vars

ConfigDone == pc = "done" /\ ret.op = "find_config_files"

\* the 16 names in the order find_config_files probes them
ProbeOrder ==
    << <<"c","o","n","f","i","g",".","j","s","o","n">>, <<"c","o","n","f","i","g",".","y","a","m","l">>, <<"c","o","n","f","i","g",".","y","m","l">>, <<".","e","n","v",".","e","x","a","m","p","l","e">>,
       <<".","e","n","v",".","t","e","m","p","l","a","t","e">>, <<"d","o","c","k","e","r","-","c","o","m","p","o","s","e",".","y","m","l">>, <<"d","o","c","k","e","r","-","c","o","m","p","o","s","e",".","y","a","m","l">>,
       <<"D","o","c","k","e","r","f","i","l","e">>, <<"M","a","k","e","f","i","l","e">>, <<"p","a","c","k","a","g","e",".","j","s","o","n">>, <<"r","e","q","u","i","r","e","m","e","n","t","s",".","t","x","t">>,
       <<"s","e","t","u","p",".","p","y">>, <<"p","o","m",".","x","m","l">>, <<"b","u","i","l","d",".","g","r","a","d","l","e">>, <<"g","o",".","m","o","d">>, <<"C","a","r","g","o",".","t","o","m","l">> >>

\* the names of the bullets of a result, in the result's order
BulletNames(lines) ==
    LET IsBullet(line) == line.kind = "bullet"
        bullets == SelectSeq(lines, IsBullet)
    IN  [i \in 1..Len(bullets) |-> bullets[i].name]

\* what extraction yields for a file that gets an info line
ExtractedInfo(name) ==
    IF name = PkgName THEN extract_package_json_info(fs, <<name>>)
    ELSE IF name \in {ReqName, SetupName} THEN extract_python_info(fs, <<name>>)
    ELSE None

\* C12: the bullets of find_config_files are the probed names that exist at
\* the root, one each, in the probe list's order; an info line stands only
\* right after the bullet of package.json, requirements.txt or setup.py and
\* holds what extraction yields for that file, and such a bullet is followed
\* by an info line exactly when extraction yields info.
C12_BulletsInProbeOrder ==
    ConfigDone =>
        LET lines == IF ret.value = <<NoConfigFiles>> THEN <<>> ELSE ret.value
            AtRoot(name) == Exists(fs, <<name>>)
        IN  /\ BulletNames(lines) = SelectSeq(ProbeOrder, AtRoot)
            /\ \A i \in 1..Len(lines) :
                 /\ lines[i].kind \in {"bullet", "info"}
                 /\ lines[i].kind = "info" =>
                      /\ i > 1
                      /\ lines[i - 1].kind = "bullet"
                      /\ lines[i - 1].name \in {PkgName, ReqName, SetupName}
                      /\ ExtractedInfo(lines[i - 1].name) = Some(lines[i].info)
                 /\ lines[i].kind = "bullet" =>
                      (ExtractedInfo(lines[i].name).some
                         <=> (i < Len(lines) /\ lines[i + 1].kind = "info"))

\* C12's case: a call has returned over a root holding Cargo.toml, the
\* package.json with scripts {start} and engines.node '>=18', and Dockerfile:
\* the bullets come in probe order and the info line reads
\* 'Scripts: start | Node: >=18'
C12_Witness ==
    /\ ConfigDone
    /\ ret.value =
         << [kind |-> "bullet", name |-> <<"D","o","c","k","e","r","f","i","l","e">>],
            [kind |-> "bullet", name |-> PkgName],
            [kind |-> "info",
             info |-> << [label |-> "Scripts: ", items |-> <<<<"s","t","a","r","t">>>>],
                         [label |-> "Node: ", value |-> [j |-> "str", s |-> <<">","=","1","8">>]] >>],
            [kind |-> "bullet", name |-> <<"C","a","r","g","o",".","t","o","m","l">>] >>

\* C13: find_config_files never returns an empty result, and it returns the
\* single placeholder 'No configuration files found' exactly when none of the
\* 16 probed names exists at the root.
C13_PlaceholderIffNoneExists ==
    ConfigDone =>
        /\ ret.value # <<>>
        /\ (ret.value = <<[kind |-> "placeholder", text |-> "No configuration files found"]>>)
             <=> (\A i \in 1..Len(ProbeOrder) : ~Exists(fs, <<ProbeOrder[i]>>))

\* C13's case: a call has returned the placeholder over a root that is not
\* empty: it holds a file that is not probed, and a probed name only below a
\* directory
C13_Witness ==
    /\ ConfigDone
    /\ IsFile(fs, <<<<"n","o","t","e","s",".","t","x","t">>>>)
    /\ Exists(fs, <<<<"c","o","n","f">>, <<"D","o","c","k","e","r","f","i","l","e">>>>)
    /\ ret.value = <<[kind |-> "placeholder", text |-> "No configuration files found"]>>
=============================================================================
